---------------------------- MODULE Spec2Model ----------------------------
(***************************************************************************)
(* BillFlow: the tenant-scoped store (user_state, monthly_data,            *)
(* email_config), its REST handlers (server.js), the email configuration   *)
(* masking and the provider dispatcher (email.js) and the failure paths of *)
(* the template builder (emailTemplate.js).                                *)
(*                                                                         *)
(* Conventions of the model                                                *)
(*  - a JavaScript value is a record with one field naming its type:       *)
(*    [undef], [null], [bool], [num], [str], [arr], [obj]; an object is a  *)
(*    function from its own property names to values;                      *)
(*  - a JSON text (what the TEXT columns hold) is a sequence of tokens,    *)
(*    each a string: punctuation, a quoted string, a number, a literal;    *)
(*  - the character U+2022 (the bullet of the redaction marker) is written *)
(*    "*" because a module is ASCII;                                       *)
(*  - the column updated_at is never read by the program and is left out.  *)
(***************************************************************************)
EXTENDS Integers, Sequences, FiniteSets, TLC

VARIABLES
  user_state,    \* table user_state:   <<user_id, key>>       -> value (JSON text)
  monthly_data,  \* table monthly_data: <<user_id, month_key>> -> data  (JSON text)
  email_config,  \* table email_config: <<user_id>>            -> config (JSON text)
  resp,          \* the request handled last and the response it got
  proc,          \* "running" | "crashed": the node process
  net,           \* the transport calls made for the request handled last
  sendIn,        \* the arguments of a direct sendEmail call (dispatcher check)
  monthLog,      \* history: <<user_id, month_key>> -> the body of the last
                 \* successful write not followed by a delete
  stateLog       \* history: <<user_id, key>> -> the body of the last successful write

vars == <<user_state, monthly_data, email_config, resp, proc, net, sendIn, monthLog, stateLog>>

---------------------------------------------------------------------------
(* JavaScript values *)

Undefined == [undef |-> TRUE]
Null      == [null |-> TRUE]
Bool(b)   == [bool |-> b]
Num(n)    == [num |-> n]
Str(s)    == [str |-> s]
Arr(s)    == [arr |-> s]
Obj(f)    == [obj |-> f]

NoProps == [k \in {} |-> Undefined]

IsUndef(v) == DOMAIN v = {"undef"}
IsNull(v)  == DOMAIN v = {"null"}
IsBool(v)  == DOMAIN v = {"bool"}
IsNum(v)   == DOMAIN v = {"num"}
IsStr(v)   == DOMAIN v = {"str"}
IsArr(v)   == DOMAIN v = {"arr"}
IsObj(v)   == DOMAIN v = {"obj"}

\* ToBoolean: what `!x`, `x && ...` and `x || ...` test
Truthy(v) ==
  CASE IsUndef(v) -> FALSE
    [] IsNull(v)  -> FALSE
    [] IsBool(v)  -> v.bool
    [] IsNum(v)   -> v.num # 0
    [] IsStr(v)   -> v.str # ""
    [] OTHER      -> TRUE

\* o[k] on an object: undefined for a property it does not have
Prop(o, k) == IF IsObj(o) /\ k \in DOMAIN o.obj THEN o.obj[k] ELSE Undefined

\* { ...a, ...b }: the properties of a, overridden and extended by those of b
Spread(a, b) ==
  Obj([k \in DOMAIN a.obj \cup DOMAIN b.obj |->
         IF k \in DOMAIN b.obj THEN b.obj[k] ELSE a.obj[k]])

\* o[k] = v
Assign(o, k, v) == Obj([p \in DOMAIN o.obj \cup {k} |-> IF p = k THEN v ELSE o.obj[p]])

\* The property names of an object in one fixed order (Object.entries visits
\* them in insertion order; no handler's result depends on which order).
RECURSIVE KeySeq(_)
KeySeq(S) ==
  IF S = {} THEN <<>>
  ELSE LET k == CHOOSE e \in S : TRUE IN <<k>> \o KeySeq(S \ {k})

\* Object.entries(o) as a sequence of <<key, value>>; an array's keys are its indices
Entries(o) ==
  IF IsArr(o) THEN [i \in 1..Len(o.arr) |-> <<ToString(i - 1), o.arr[i]>>]
  ELSE LET ks == KeySeq(DOMAIN o.obj) IN [i \in 1..Len(ks) |-> <<ks[i], o.obj[ks[i]]>>]

\* the elements of a sequence
Range(s) == { s[i] : i \in DOMAIN s }

\* typeof v === 'object'
TypeofObject(v) == IsObj(v) \/ IsArr(v) \/ IsNull(v)

---------------------------------------------------------------------------
(* JSON.stringify and JSON.parse *)

Quote(s)   == "\"" \o s \o "\""
IsQuoted(t) == Len(t) >= 2 /\ SubSeq(t, 1, 1) = "\"" /\ SubSeq(t, Len(t), Len(t)) = "\""
Unquote(t) == SubSeq(t, 2, Len(t) - 1)

\* the numbers the model's requests carry
Numbers == 0..9
IsNumeral(t) == \E n \in Numbers : ToString(n) = t
NumeralValue(t) == CHOOSE n \in Numbers : ToString(n) = t

RECURSIVE JSONstringify(_), StringifyElems(_, _), StringifyProps(_, _, _)
\* JSON.stringify(v): the text, or Undefined for a value with no JSON form
JSONstringify(v) ==
  CASE IsUndef(v) -> Undefined
    [] IsNull(v)  -> <<"null">>
    [] IsBool(v)  -> IF v.bool THEN <<"true">> ELSE <<"false">>
    [] IsNum(v)   -> <<ToString(v.num)>>
    [] IsStr(v)   -> <<Quote(v.str)>>
    [] IsArr(v)   -> <<"[">> \o StringifyElems(v.arr, 1) \o <<"]">>
    [] IsObj(v)   -> <<"{">> \o StringifyProps(v.obj, KeySeq(DOMAIN v.obj), TRUE) \o <<"}">>

\* the elements from index i on; an undefined element is written null
StringifyElems(a, i) ==
  IF i > Len(a) THEN <<>>
  ELSE (IF i > 1 THEN <<",">> ELSE <<>>)
       \o (IF IsUndef(a[i]) THEN <<"null">> ELSE JSONstringify(a[i]))
       \o StringifyElems(a, i + 1)

\* the properties named by ks; a property whose value is undefined is left out
StringifyProps(f, ks, first) ==
  IF ks = <<>> THEN <<>>
  ELSE LET k == Head(ks) IN
       IF IsUndef(f[k]) THEN StringifyProps(f, Tail(ks), first)
       ELSE (IF first THEN <<>> ELSE <<",">>)
            \o <<Quote(k), ":">> \o JSONstringify(f[k])
            \o StringifyProps(f, Tail(ks), FALSE)

ParseFail == [ok |-> FALSE]
ParseOk(v, n) == [ok |-> TRUE, val |-> v, next |-> n]

RECURSIVE ParseValue(_, _), ParseElems(_, _, _), ParseProps(_, _, _)
\* one value starting at token i
ParseValue(toks, i) ==
  IF i > Len(toks) THEN ParseFail
  ELSE LET t == toks[i] IN
    CASE t = "null"   -> ParseOk(Null, i + 1)
      [] t = "true"   -> ParseOk(Bool(TRUE), i + 1)
      [] t = "false"  -> ParseOk(Bool(FALSE), i + 1)
      [] t = "["      -> IF i + 1 <= Len(toks) /\ toks[i + 1] = "]"
                         THEN ParseOk(Arr(<<>>), i + 2)
                         ELSE ParseElems(toks, i + 1, <<>>)
      [] t = "{"      -> IF i + 1 <= Len(toks) /\ toks[i + 1] = "}"
                         THEN ParseOk(Obj(NoProps), i + 2)
                         ELSE ParseProps(toks, i + 1, NoProps)
      [] IsQuoted(t)  -> ParseOk(Str(Unquote(t)), i + 1)
      [] IsNumeral(t) -> ParseOk(Num(NumeralValue(t)), i + 1)
      [] OTHER        -> ParseFail

ParseElems(toks, i, acc) ==
  LET r == ParseValue(toks, i) IN
  IF ~r.ok \/ r.next > Len(toks) THEN ParseFail
  ELSE CASE toks[r.next] = "," -> ParseElems(toks, r.next + 1, Append(acc, r.val))
         [] toks[r.next] = "]" -> ParseOk(Arr(Append(acc, r.val)), r.next + 1)
         [] OTHER              -> ParseFail

ParseProps(toks, i, acc) ==
  IF i + 2 > Len(toks) \/ ~IsQuoted(toks[i]) \/ toks[i + 1] # ":" THEN ParseFail
  ELSE LET r == ParseValue(toks, i + 2)
           k == Unquote(toks[i])
       IN IF ~r.ok \/ r.next > Len(toks) THEN ParseFail
          ELSE LET acc2 == [p \in DOMAIN acc \cup {k} |-> IF p = k THEN r.val ELSE acc[p]] IN
               CASE toks[r.next] = "," -> ParseProps(toks, r.next + 1, acc2)
                 [] toks[r.next] = "}" -> ParseOk(Obj(acc2), r.next + 1)
                 [] OTHER              -> ParseFail

\* JSON.parse(text): [ok |-> TRUE, val |-> v], or [ok |-> FALSE] where it throws
JSONparse(toks) ==
  LET r == ParseValue(toks, 1) IN
  IF r.ok /\ r.next = Len(toks) + 1 THEN [ok |-> TRUE, val |-> r.val] ELSE [ok |-> FALSE]

---------------------------------------------------------------------------
(* Bounds of the model *)

\* the request bodies carry the numbers 1..MaxTotal
MaxTotal == 1

---------------------------------------------------------------------------
(* Requests *)

NoHeaders == [remote_user |-> "", x_authentik_username |-> "",
              x_forwarded_user |-> "", x_remote_user |-> ""]

\* single-user mode: no proxy, no identity header
LocalHeaders == { NoHeaders }
\* behind a proxy: a direct request, and one with Remote-User injected beside a
\* stale X-Remote-User
ProxyHeaders == { NoHeaders,
                  [NoHeaders EXCEPT !.remote_user = "alice", !.x_remote_user = "local"] }

\* the auth middleware: req.userId
UserId(h) ==
  IF h.remote_user # "" THEN h.remote_user
  ELSE IF h.x_authentik_username # "" THEN h.x_authentik_username
  ELSE IF h.x_forwarded_user # "" THEN h.x_forwarded_user
  ELSE IF h.x_remote_user # "" THEN h.x_remote_user
  ELSE "local"

Tenants == { UserId(h) : h \in ProxyHeaders }

V1 == Arr(<<Obj([name |-> Str("Alice")])>>)
Total(n) == Obj([total |-> Num(n)])
\* the bodies of PATCH /api/state/:key and PUT /api/months/:key
BodyValues == {V1} \cup { Total(n) : n \in 1..MaxTotal }

SettingKeys == {"people", "settings"}
\* month keys a row can be stored under in the model: one of the form YYYY-MM, one not
StoredMonthKeys == {"2024-01", "2024-1"}
\* the keys of PUT /api/months/:key
PutMonthKeys == StoredMonthKeys \cup {"abcd-ef", "2024-011"}

\* the bodies of PUT /api/state
StateBodies ==
  { Obj(NoProps),
    Obj([people |-> V1]),
    Obj([settings |-> Total(1)]),
    Obj([people |-> Total(1), settings |-> V1]) }

\* the documents of POST /api/import: { state, monthly }, either part possibly missing
ImportBodies ==
  { Obj([state |-> Obj([people |-> V1]), monthly |-> Obj([k \in {"2024-01"} |-> Total(1)])]),
    Obj([state |-> Obj([settings |-> V1])]),
    Obj([monthly |-> Obj([k \in {"2024-01"} |-> V1])]),
    Obj([monthly |-> Obj([k \in {"2024-1"} |-> Total(1)])]),
    Obj([monthly |-> Obj([k \in StoredMonthKeys |-> V1])]) }

\* the statement of a batch that throws an SQLite error (0: none does)
FailPoints == 0..2

---------------------------------------------------------------------------
(* The tables and the prepared statements (stmts) *)

NoRows == [p \in {} |-> <<>>]

\* INSERT OR REPLACE INTO t (pk, value)
Upsert(tbl, pk, value) == [p \in DOMAIN tbl \cup {pk} |-> IF p = pk THEN value ELSE tbl[p]]
\* DELETE FROM t WHERE pk
Delete(tbl, pk) == [p \in DOMAIN tbl \ {pk} |-> tbl[p]]

\* fault: INSERT OR IGNORE, the first write of a key wins
setState_InsertOnly(tbl, userId, key, value) ==
  IF <<userId, key>> \in DOMAIN tbl THEN tbl ELSE Upsert(tbl, <<userId, key>>, value)
setState(tbl, userId, key, value) == Upsert(tbl, <<userId, key>>, value)
\* the rows of a user: {[key, value]}
getAllState(tbl, userId) ==
  { [key |-> p[2], value |-> tbl[p]] : p \in { q \in DOMAIN tbl : q[1] = userId } }
getMonth(tbl, userId, key) ==
  IF <<userId, key>> \in DOMAIN tbl THEN [found |-> TRUE, data |-> tbl[<<userId, key>>]]
  ELSE [found |-> FALSE]
\* fault: INSERT OR IGNORE, an existing row is not replaced
setMonth_InsertOnly(tbl, userId, key, data) ==
  IF <<userId, key>> \in DOMAIN tbl THEN tbl ELSE Upsert(tbl, <<userId, key>>, data)
setMonth(tbl, userId, key, data) == Upsert(tbl, <<userId, key>>, data)
\* the rows of a user: {[month_key, data]} (the answer is an object, so the
\* ORDER BY of the statement does not show)
getAllMonths(tbl, userId) ==
  { [month_key |-> p[2], data |-> tbl[p]] : p \in { q \in DOMAIN tbl : q[1] = userId } }
\* fault: DELETE ... WHERE month_key = ? without the user_id
deleteMonth_AnyUser(tbl, userId, key) == [p \in { q \in DOMAIN tbl : q[2] # key } |-> tbl[p]]
deleteMonth(tbl, userId, key) == Delete(tbl, <<userId, key>>)
getEmailCfg(tbl, userId) ==
  IF userId \in DOMAIN tbl THEN [found |-> TRUE, config |-> tbl[userId]] ELSE [found |-> FALSE]
setEmailCfg(tbl, userId, config) == Upsert(tbl, userId, config)

\* One write of a batch: [tbl |-> "state" | "monthly", user, key, value]
RunWrite(tabs, w) ==
  IF w.tbl = "state"
  THEN [tabs EXCEPT !.state = setState(tabs.state, w.user, w.key, w.value)]
  ELSE [tabs EXCEPT !.monthly = setMonth(tabs.monthly, w.user, w.key, w.value)]

RECURSIVE RunWrites(_, _, _)
\* the first n writes of ws, in order
RunWrites(tabs, ws, n) ==
  IF n = 0 THEN tabs ELSE RunWrite(RunWrites(tabs, ws, n - 1), ws[n])

\* fault: the statements run outside a transaction, those before the failing
\* one stay written
Transaction_NoRollback(tabs, ws, failAt) ==
  IF failAt \in 1..Len(ws)
  THEN [committed |-> FALSE, tabs |-> RunWrites(tabs, ws, failAt - 1)]
  ELSE [committed |-> TRUE, tabs |-> RunWrites(tabs, ws, Len(ws))]

\* fault: a replacement, the rows of the writing user are deleted before the batch
Transaction_Replace(tabs, ws, failAt) ==
  LET others(tbl) == [p \in { q \in DOMAIN tbl : \A i \in 1..Len(ws) : q[1] # ws[i].user } |-> tbl[p]]
      cleared == [state |-> others(tabs.state), monthly |-> others(tabs.monthly)]
  IN IF failAt \in 1..Len(ws)
     THEN [committed |-> FALSE, tabs |-> tabs]
     ELSE [committed |-> TRUE, tabs |-> RunWrites(cleared, ws, Len(ws))]

\* db.transaction(fn)(...): fn runs its statements in order inside BEGIN ... COMMIT;
\* if statement number failAt throws (an SQLite error), the transaction is rolled
\* back and the exception goes on to the caller. failAt = 0: no statement throws.
Transaction(tabs, ws, failAt) ==
  IF failAt \in 1..Len(ws)
  THEN [committed |-> FALSE, tabs |-> tabs]
  ELSE [committed |-> TRUE, tabs |-> RunWrites(tabs, ws, Len(ws))]

\* for (const [k, v] of Object.entries(o)) stmt.run(userId, k, JSON.stringify(v))
WritesOf(tbl, userId, o) ==
  LET es == Entries(o) IN
  [i \in 1..Len(es) |-> [tbl |-> tbl, user |-> userId, key |-> es[i][1],
                         value |-> JSONstringify(es[i][2])]]

\* the history after a committed batch over the object o: the values its keys carried
Logged(log, userId, o) ==
  IF ~Truthy(o) THEN log
  ELSE [p \in DOMAIN log \cup { <<userId, k>> : k \in DOMAIN o.obj } |->
          IF p[1] = userId /\ p[2] \in DOMAIN o.obj THEN o.obj[p[2]] ELSE log[p]]

---------------------------------------------------------------------------
(* Responses *)

\* the handler run last: its route, req.userId, req.params.key, req.body, and the
\* status and body it answered
Response(op, h, key, req, status, body) ==
  [op |-> op, user |-> UserId(h), key |-> key, req |-> req, status |-> status, body |-> body]

OkBody == Obj([ok |-> Bool(TRUE)])
ErrorBody(msg) == Obj([error |-> Str(msg)])
\* what express's default error handler answers when a handler throws
Thrown(op, h, key, req) == Response(op, h, key, req, 500, Str("Internal Server Error"))

\* the text of a row as the string the driver returns it
RECURSIVE RawText(_)
RawText(toks) == IF toks = <<>> THEN "" ELSE Head(toks) \o RawText(Tail(toks))

---------------------------------------------------------------------------
(* State API *)

\* GET /api/state: every row of the user, parsed; a row that does not parse is
\* answered as its raw text
StateView(tbl, userId) ==
  LET rows == getAllState(tbl, userId) IN
  Obj([k \in { r.key : r \in rows } |->
         LET r == CHOOSE x \in rows : x.key = k
             p == JSONparse(r.value)
         IN IF p.ok THEN p.val ELSE Str(RawText(r.value))])

GetState(h) ==
  /\ proc = "running"
  /\ resp' = Response("GetState", h, "", Undefined, 200, StateView(user_state, UserId(h)))
  /\ net' = <<>>
  /\ UNCHANGED <<user_state, monthly_data, email_config, proc, sendIn, monthLog, stateLog>>

\* PUT /api/state: saveMany, one transaction over the entries of the body
PutState(h, body, failAt) ==
  /\ proc = "running"
  /\ IF ~Truthy(body) \/ ~TypeofObject(body)
     THEN /\ failAt = 0
          /\ resp' = Response("PutState", h, "", body, 400, ErrorBody("Invalid body"))
          /\ UNCHANGED <<user_state, stateLog>>
     ELSE LET ws  == WritesOf("state", UserId(h), body)
              txn == Transaction([state |-> user_state, monthly |-> monthly_data], ws, failAt)
          IN /\ failAt \in 0..Len(ws)
             /\ user_state' = txn.tabs.state
             /\ resp' = IF txn.committed THEN Response("PutState", h, "", body, 200, OkBody)
                        ELSE Thrown("PutState", h, "", body)
             /\ stateLog' = IF txn.committed THEN Logged(stateLog, UserId(h), body)
                            ELSE stateLog
  /\ net' = <<>>
  /\ UNCHANGED <<monthly_data, email_config, proc, sendIn, monthLog>>

\* PATCH /api/state/:key
PatchState(h, key, body) ==
  /\ proc = "running"
  /\ user_state' = setState(user_state, UserId(h), key, JSONstringify(body))
  /\ resp' = Response("PatchState", h, key, body, 200, OkBody)
  /\ stateLog' = Upsert(stateLog, <<UserId(h), key>>, body)
  /\ net' = <<>>
  /\ UNCHANGED <<monthly_data, email_config, proc, sendIn, monthLog>>

---------------------------------------------------------------------------
(* Monthly data API *)

\* the rows of the user that parse, by month key (GET /api/months, GET /api/export)
MonthsView(tbl, userId) ==
  LET rows == { r \in getAllMonths(tbl, userId) : JSONparse(r.data).ok } IN
  Obj([k \in { r.month_key : r \in rows } |->
         JSONparse((CHOOSE x \in rows : x.month_key = k).data).val])

GetMonths(h) ==
  /\ proc = "running"
  /\ resp' = Response("GetMonths", h, "", Undefined, 200, MonthsView(monthly_data, UserId(h)))
  /\ net' = <<>>
  /\ UNCHANGED <<user_state, monthly_data, email_config, proc, sendIn, monthLog, stateLog>>

\* GET /api/months/:key: {} for no row and for a row that does not parse
MonthView(tbl, userId, key) ==
  LET row == getMonth(tbl, userId, key) IN
  IF ~row.found THEN Obj(NoProps)
  ELSE LET p == JSONparse(row.data) IN IF p.ok THEN p.val ELSE Obj(NoProps)

GetMonth(h, key) ==
  /\ proc = "running"
  /\ resp' = Response("GetMonth", h, key, Undefined, 200, MonthView(monthly_data, UserId(h), key))
  /\ net' = <<>>
  /\ UNCHANGED <<user_state, monthly_data, email_config, proc, sendIn, monthLog, stateLog>>

IsDigit(c) == c \in {"0", "1", "2", "3", "4", "5", "6", "7", "8", "9"}
\* fault: the pattern without its end anchor, /^\d{4}-\d{2}/
MonthKeyTest_Unanchored(key) ==
  /\ Len(key) >= 7
  /\ \A i \in 1..4 : IsDigit(SubSeq(key, i, i))
  /\ SubSeq(key, 5, 5) = "-"
  /\ \A i \in 6..7 : IsDigit(SubSeq(key, i, i))
\* /^\d{4}-\d{2}$/.test(key)
MonthKeyTest(key) ==
  /\ Len(key) = 7
  /\ \A i \in 1..4 : IsDigit(SubSeq(key, i, i))
  /\ SubSeq(key, 5, 5) = "-"
  /\ \A i \in 6..7 : IsDigit(SubSeq(key, i, i))

\* PUT /api/months/:key
PutMonth(h, key, body) ==
  /\ proc = "running"
  /\ IF ~MonthKeyTest(key)
     THEN /\ resp' = Response("PutMonth", h, key, body, 400,
                              ErrorBody("Invalid month key (expected YYYY-MM)"))
          /\ UNCHANGED <<monthly_data, monthLog>>
     ELSE /\ monthly_data' = setMonth(monthly_data, UserId(h), key, JSONstringify(body))
          /\ resp' = Response("PutMonth", h, key, body, 200, OkBody)
          /\ monthLog' = Upsert(monthLog, <<UserId(h), key>>, body)
  /\ net' = <<>>
  /\ UNCHANGED <<user_state, email_config, proc, sendIn, stateLog>>

\* DELETE /api/months/:key
DeleteMonth(h, key) ==
  /\ proc = "running"
  /\ monthly_data' = deleteMonth(monthly_data, UserId(h), key)
  /\ resp' = Response("DeleteMonth", h, key, Undefined, 200, OkBody)
  /\ monthLog' = Delete(monthLog, <<UserId(h), key>>)
  /\ net' = <<>>
  /\ UNCHANGED <<user_state, email_config, proc, sendIn, stateLog>>

---------------------------------------------------------------------------
(* Export / Import *)

\* the rows of the user that parse, by key (GET /api/export drops the others)
ExportStateView(tbl, userId) ==
  LET rows == { r \in getAllState(tbl, userId) : JSONparse(r.value).ok } IN
  Obj([k \in { r.key : r \in rows } |->
         JSONparse((CHOOSE x \in rows : x.key = k).value).val])

\* GET /api/export; exportedAt is the reading of the clock, one fixed instant here
ExportDoc(us, md, userId) ==
  Obj([user |-> Str(userId), exportedAt |-> Str("now"),
       state |-> ExportStateView(us, userId), monthly |-> MonthsView(md, userId)])

Export(h) ==
  /\ proc = "running"
  /\ resp' = Response("Export", h, "", Undefined, 200,
                      ExportDoc(user_state, monthly_data, UserId(h)))
  /\ net' = <<>>
  /\ UNCHANGED <<user_state, monthly_data, email_config, proc, sendIn, monthLog, stateLog>>

\* fault: the import replays the settings only
ImportWrites_StateOnly(userId, body) ==
  LET s == Prop(body, "state") IN
  IF Truthy(s) THEN WritesOf("state", userId, s) ELSE <<>>

\* the statements importAll runs for { state, monthly }
ImportWrites(userId, body) ==
  LET s == Prop(body, "state")
      m == Prop(body, "monthly")
  IN (IF Truthy(s) THEN WritesOf("state", userId, s) ELSE <<>>)
     \o (IF Truthy(m) THEN WritesOf("monthly", userId, m) ELSE <<>>)

\* POST /api/import: importAll, one transaction
Import(h, body, failAt) ==
  LET ws  == ImportWrites(UserId(h), body)
      txn == Transaction([state |-> user_state, monthly |-> monthly_data], ws, failAt)
  IN /\ proc = "running"
     /\ failAt \in 0..Len(ws)
     /\ user_state' = txn.tabs.state
     /\ monthly_data' = txn.tabs.monthly
     /\ resp' = IF txn.committed THEN Response("Import", h, "", body, 200, OkBody)
                ELSE Thrown("Import", h, "", body)
     /\ stateLog' = IF txn.committed THEN Logged(stateLog, UserId(h), Prop(body, "state"))
                    ELSE stateLog
     /\ monthLog' = IF txn.committed THEN Logged(monthLog, UserId(h), Prop(body, "monthly"))
                    ELSE monthLog
     /\ net' = <<>>
     /\ UNCHANGED <<email_config, proc, sendIn>>

---------------------------------------------------------------------------
(* Specification of the store, single-user mode *)

NoResponse == [op |-> "none", user |-> "", key |-> "", req |-> Undefined,
               status |-> 0, body |-> Undefined]
NoSend == [cfg |-> Undefined, to |-> Undefined, ok |-> TRUE]

Init ==
  /\ user_state = NoRows
  /\ monthly_data = NoRows
  /\ email_config = NoRows
  /\ resp = NoResponse
  /\ proc = "running"
  /\ net = <<>>
  /\ sendIn = NoSend
  /\ monthLog = NoRows
  /\ stateLog = NoRows

Next ==
  \/ \E h \in LocalHeaders : GetState(h)
  \/ \E h \in LocalHeaders, b \in StateBodies, f \in FailPoints : PutState(h, b, f)
  \/ \E h \in LocalHeaders, k \in SettingKeys, b \in BodyValues : PatchState(h, k, b)
  \/ \E h \in LocalHeaders : GetMonths(h)
  \/ \E h \in LocalHeaders, k \in StoredMonthKeys : GetMonth(h, k)
  \/ \E h \in LocalHeaders, k \in PutMonthKeys, b \in BodyValues : PutMonth(h, k, b)
  \/ \E h \in LocalHeaders, k \in StoredMonthKeys : DeleteMonth(h, k)
  \/ \E h \in LocalHeaders : Export(h)
  \/ \E h \in LocalHeaders, b \in ImportBodies, f \in FailPoints : Import(h, b, f)

Spec == Init /\ [][Next]_vars

---------------------------------------------------------------------------
(* Email configuration: masking (email.js) and the config API (server.js) *)

SecretFields == {"mailgunApiKey", "sendgridApiKey", "resendApiKey", "smtpPass"}

\* what maskConfig appends: twelve bullets
MaskSuffix == "************"
\* what PUT /api/email/config looks for: four bullets
MaskProbe == "****"

\* s.includes(sub)
Includes(s, sub) ==
  \E i \in 1..(Len(s) - Len(sub) + 1) : SubSeq(s, i, i + Len(sub) - 1) = sub

\* s.slice(0, 4)
SliceHead(s) == IF Len(s) <= 4 THEN s ELSE SubSeq(s, 1, 4)

\* a value on which .slice or .includes is not a function (a truthy number,
\* boolean or plain object); array-valued secrets are outside the model's requests
NotSliceable(v) == Truthy(v) /\ ~IsStr(v)

\* fault: only the API keys are masked, the SMTP password is not
maskConfig_KeysOnly(cfg) ==
  IF ~Truthy(cfg) THEN [threw |-> FALSE, val |-> Null]
  ELSE IF \E f \in SecretFields : NotSliceable(Prop(cfg, f)) THEN [threw |-> TRUE]
  ELSE [threw |-> FALSE,
        val |-> Obj([k \in DOMAIN cfg.obj |->
                  IF k \in SecretFields \ {"smtpPass"} /\ Truthy(cfg.obj[k])
                  THEN Str(SliceHead(cfg.obj[k].str) \o MaskSuffix)
                  ELSE cfg.obj[k]])]

\* maskConfig(cfg): null for no config; a copy with every set secret replaced by
\* its first four characters and the suffix; [threw] where it raises a TypeError
maskConfig(cfg) ==
  IF ~Truthy(cfg) THEN [threw |-> FALSE, val |-> Null]
  ELSE IF \E f \in SecretFields : NotSliceable(Prop(cfg, f)) THEN [threw |-> TRUE]
  ELSE [threw |-> FALSE,
        val |-> Obj([k \in DOMAIN cfg.obj |->
                  IF k \in SecretFields /\ Truthy(cfg.obj[k])
                  THEN Str(SliceHead(cfg.obj[k].str) \o MaskSuffix)
                  ELSE cfg.obj[k]])]

\* GET /api/email/config: the masked config; null for no row and for whatever throws
MaskedView(tbl, userId) ==
  LET row == getEmailCfg(tbl, userId) IN
  IF ~row.found THEN Null
  ELSE LET p == JSONparse(row.config) IN
       IF ~p.ok THEN Null
       ELSE LET m == maskConfig(p.val) IN IF m.threw THEN Null ELSE m.val

GetEmailConfig(h) ==
  /\ proc = "running"
  /\ resp' = Response("GetEmailConfig", h, "", Undefined, 200,
                      MaskedView(email_config, UserId(h)))
  /\ net' = <<>>
  /\ UNCHANGED <<user_state, monthly_data, email_config, proc, sendIn, monthLog, stateLog>>

\* the stored config of the user as the merge reads it: {} for no row or a row
\* that does not parse
ExistingConfig(tbl, userId) ==
  LET row == getEmailCfg(tbl, userId) IN
  IF ~row.found THEN Obj(NoProps)
  ELSE LET p == JSONparse(row.config) IN IF p.ok THEN p.val ELSE Obj(NoProps)

RECURSIVE KeepMasked(_, _, _, _)
\* secretFields.forEach over the fields fs: a field whose incoming value looks
\* masked gets the existing value back
KeepMasked(merged, existing, body, fs) ==
  IF fs = {} THEN merged
  ELSE LET f == CHOOSE x \in fs : TRUE
           v == Prop(body, f)
           m == IF Truthy(v) /\ Includes(v.str, MaskProbe)
                THEN Assign(merged, f, Prop(existing, f))
                ELSE merged
       IN KeepMasked(m, existing, body, fs \ {f})

\* fault: the plain merge, a masked secret is stored like any other value
MergeConfig_NoKeep(existing, body) == Spread(existing, body)
\* fault: a masked secret is only replaced where a value is stored for the field
MergeConfig_KeepIfStored(existing, body) ==
  LET set == { k \in DOMAIN body.obj : k \notin SecretFields \/ Truthy(Prop(existing, k)) } IN
  KeepMasked(Spread(existing, body), existing, Obj([k \in set |-> body.obj[k]]), SecretFields)
\* merged = { ...existing, ...body } with the masked secrets kept
MergeConfig(existing, body) == KeepMasked(Spread(existing, body), existing, body, SecretFields)

\* fault: the save without its provider check
PutEmailConfig_NoCheck(h, body) ==
  /\ proc = "running"
  /\ IF \E f \in SecretFields : NotSliceable(Prop(body, f))
     THEN /\ resp' = Thrown("PutEmailConfig", h, "", body)
          /\ UNCHANGED email_config
     ELSE /\ email_config' =
               setEmailCfg(email_config, UserId(h),
                           JSONstringify(MergeConfig(ExistingConfig(email_config, UserId(h)), body)))
          /\ resp' = Response("PutEmailConfig", h, "", body, 200, OkBody)
  /\ net' = <<>>
  /\ UNCHANGED <<user_state, monthly_data, proc, sendIn, monthLog, stateLog>>

\* PUT /api/email/config
PutEmailConfig(h, body) ==
  /\ proc = "running"
  /\ IF ~Truthy(body) \/ ~Truthy(Prop(body, "provider"))
     THEN /\ resp' = Response("PutEmailConfig", h, "", body, 400, ErrorBody("provider required"))
          /\ UNCHANGED email_config
     ELSE IF \E f \in SecretFields : NotSliceable(Prop(body, f))
     THEN \* body[f].includes is not a function: the handler throws before it stores
          /\ resp' = Thrown("PutEmailConfig", h, "", body)
          /\ UNCHANGED email_config
     ELSE /\ email_config' =
               setEmailCfg(email_config, UserId(h),
                           JSONstringify(MergeConfig(ExistingConfig(email_config, UserId(h)), body)))
          /\ resp' = Response("PutEmailConfig", h, "", body, 200, OkBody)
  /\ net' = <<>>
  /\ UNCHANGED <<user_state, monthly_data, proc, sendIn, monthLog, stateLog>>

\* the settings page saves back what it read: the body is the masked config of
\* the GET answered last, with the provider switched or not
EchoEmailConfig(h, provider) ==
  /\ resp.op = "GetEmailConfig"
  /\ resp.user = UserId(h)
  /\ IsObj(resp.body)
  /\ PutEmailConfig(h, Assign(resp.body, "provider", provider))

---------------------------------------------------------------------------
(* Provider dispatch (email.js) *)

\* one call of a transport: the provider's HTTP API or the SMTP relay; it
\* resolves if the provider accepts (ok) and rejects with its error otherwise
Transport(name, to, ok) ==
  [threw |-> ~ok, msg |-> IF ok THEN "" ELSE "HTTP 500: " \o name,
   calls |-> <<[transport |-> name, to |-> to]>>]

sendViaMailgun(cfg, to, ok)  == Transport("mailgun", to, ok)
sendViaSendGrid(cfg, to, ok) == Transport("sendgrid", to, ok)
sendViaResend(cfg, to, ok)   == Transport("resend", to, ok)
sendViaSmtp(cfg, to, ok)     == Transport("smtp", to, ok)

Reject(msg) == [threw |-> TRUE, msg |-> msg, calls |-> <<>>]

\* fault: a switch without a default, an unknown provider falls through
sendEmail_NoDefault(cfg, to, ok) ==
  IF ~Truthy(cfg) \/ ~Truthy(Prop(cfg, "provider")) THEN Reject("No email provider configured")
  ELSE IF ~Truthy(Prop(cfg, "fromEmail")) THEN Reject("No sender email configured")
  ELSE IF ~Truthy(to) THEN Reject("No recipient email address")
  ELSE LET p == Prop(cfg, "provider") IN
       CASE p = Str("mailgun")  -> sendViaMailgun(cfg, to, ok)
         [] p = Str("sendgrid") -> sendViaSendGrid(cfg, to, ok)
         [] p = Str("resend")   -> sendViaResend(cfg, to, ok)
         [] p = Str("smtp")     -> sendViaSmtp(cfg, to, ok)
         [] OTHER               -> [threw |-> FALSE, msg |-> "", calls |-> <<>>]

\* sendEmail(cfg, to, ...): [threw, msg, calls]
sendEmail(cfg, to, ok) ==
  IF ~Truthy(cfg) \/ ~Truthy(Prop(cfg, "provider")) THEN Reject("No email provider configured")
  ELSE IF ~Truthy(Prop(cfg, "fromEmail")) THEN Reject("No sender email configured")
  ELSE IF ~Truthy(to) THEN Reject("No recipient email address")
  ELSE LET p == Prop(cfg, "provider") IN
       CASE p = Str("mailgun")  -> sendViaMailgun(cfg, to, ok)
         [] p = Str("sendgrid") -> sendViaSendGrid(cfg, to, ok)
         [] p = Str("resend")   -> sendViaResend(cfg, to, ok)
         [] p = Str("smtp")     -> sendViaSmtp(cfg, to, ok)
         [] OTHER               -> Reject("Unknown provider")

---------------------------------------------------------------------------
(* Template builder (emailTemplate.js): where it throws *)

\* b.amount.toFixed(2) and b.name.padEnd(24) on one bill
BillThrows(b) == ~IsObj(b) \/ ~IsNum(Prop(b, "amount")) \/ ~IsStr(Prop(b, "name"))

\* buildEmailHtml(opts) raises a TypeError: total.toFixed on a total that is no
\* number, bills.map on bills that are no array, a bill without a numeric amount
\* or a string name, payId.replace on a venmo id that is no string
BuildThrows(opts) ==
  \/ ~IsNum(Prop(opts, "total"))
  \/ ~IsArr(Prop(opts, "bills"))
  \/ \E b \in Range(Prop(opts, "bills").arr) : BillThrows(b)
  \/ /\ Prop(opts, "payMethod") = Str("venmo")
     /\ Truthy(Prop(opts, "payId"))
     /\ ~IsStr(Prop(opts, "payId"))

\* the sample content of the test email (amounts in hundredths)
TestOpts ==
  Obj([greeting |-> Str("Hey there,"), personName |-> Str("You"),
       accentColor |-> Str("#a8e063"), monthLabel |-> Str("Test Email"),
       bills |-> Arr(<<Obj([name |-> Str("Electric"), amount |-> Num(8500)]),
                       Obj([name |-> Str("Internet"), amount |-> Num(5999)])>>),
       total |-> Num(14499), payMethod |-> Str("none")])

---------------------------------------------------------------------------
(* Email API (server.js) *)

\* An async handler that throws outside its try block rejects its promise.
\* Express 4 (the router that accepts app.get('*')) does not handle the
\* rejection, and node 20 ends the process on an unhandled rejection: no
\* response is written.
Crash(op, h, body) ==
  /\ proc' = "crashed"
  /\ resp' = Response(op, h, "", body, 0, Undefined)
  /\ net' = <<>>

\* try { await sendEmail(...); res.json(okBody) } catch (e) { res.status(500)... }
Deliver(op, h, body, cfg, to, ok, okBody) ==
  LET r == sendEmail(cfg, to, ok) IN
  /\ net' = r.calls
  /\ resp' = IF r.threw THEN Response(op, h, "", body, 500, ErrorBody(r.msg))
             ELSE Response(op, h, "", body, 200, okBody)
  /\ UNCHANGED proc

\* POST /api/email/test
EmailTest(h, ok) ==
  LET row == getEmailCfg(email_config, UserId(h)) IN
  /\ proc = "running"
  /\ IF ~row.found
     THEN /\ resp' = Response("EmailTest", h, "", Undefined, 400, ErrorBody("No email config saved"))
          /\ net' = <<>>
          /\ UNCHANGED proc
     ELSE IF ~JSONparse(row.config).ok
     THEN /\ resp' = Response("EmailTest", h, "", Undefined, 400, ErrorBody("Invalid config"))
          /\ net' = <<>>
          /\ UNCHANGED proc
     ELSE LET cfg == JSONparse(row.config).val IN
          IF BuildThrows(TestOpts) THEN Crash("EmailTest", h, Undefined)
          ELSE Deliver("EmailTest", h, Undefined, cfg, Prop(cfg, "fromEmail"), ok,
                       Obj([ok |-> Bool(TRUE), message |-> Str("Test email sent")]))
  /\ UNCHANGED <<user_state, monthly_data, email_config, sendIn, monthLog, stateLog>>

\* POST /api/email/send
EmailSend(h, body, ok) ==
  LET row == getEmailCfg(email_config, UserId(h)) IN
  /\ proc = "running"
  /\ IF ~Truthy(Prop(body, "to"))
     THEN /\ resp' = Response("EmailSend", h, "", body, 400, ErrorBody("recipient (to) required"))
          /\ net' = <<>>
          /\ UNCHANGED proc
     ELSE IF ~row.found
     THEN /\ resp' = Response("EmailSend", h, "", body, 400,
                              ErrorBody("No email provider configured"))
          /\ net' = <<>>
          /\ UNCHANGED proc
     ELSE IF ~JSONparse(row.config).ok
     THEN /\ resp' = Response("EmailSend", h, "", body, 400, ErrorBody("Invalid email config"))
          /\ net' = <<>>
          /\ UNCHANGED proc
     ELSE IF BuildThrows(body) THEN Crash("EmailSend", h, body)
     ELSE Deliver("EmailSend", h, body, JSONparse(row.config).val, Prop(body, "to"), ok, OkBody)
  /\ UNCHANGED <<user_state, monthly_data, email_config, sendIn, monthLog, stateLog>>

---------------------------------------------------------------------------
(* Specification of the email configuration and the email API, single-user mode *)

Masked(s) == SliceHead(s) \o MaskSuffix

\* the bodies of PUT /api/email/config
EmailBodies ==
  { Obj([provider |-> Str("smtp"), fromEmail |-> Str("me@x.io"), smtpPass |-> Str("hunter2!")]),
    Obj([provider |-> Str("smtp"), smtpPass |-> Str(Masked("hunter2!"))]),
    Obj([provider |-> Str("smtp"), smtpPass |-> Str("abc")]),
    Obj([provider |-> Str("smtp"), smtpPass |-> Str("ab****cd")]),
    Obj([provider |-> Str("smtp"), smtpPass |-> Str("")]),
    Obj([provider |-> Str("smtp"), smtpPass |-> Num(7)]),
    Obj([provider |-> Str("mailgun"), mailgunApiKey |-> Str("key-12345")]),
    Obj([provider |-> Str("pigeon")]),
    Obj([fromEmail |-> Str("me@x.io"), smtpPass |-> Str("s3cret")]) }

\* the providers the settings page switches to when it saves back
EchoProviders == { Str("smtp"), Str("mailgun") }

Bill == Obj([name |-> Str("Electric"), amount |-> Num(5)])
\* the bodies of POST /api/email/send
SendBodies ==
  { Obj([to |-> Str("bob@x.io"), monthLabel |-> Str("March"), bills |-> Arr(<<Bill>>),
         total |-> Num(5), payMethod |-> Str("none")]),
    Obj([monthLabel |-> Str("March"), bills |-> Arr(<<Bill>>), total |-> Num(5)]),
    Obj([to |-> Str("bob@x.io"), total |-> Num(5)]),
    Obj([to |-> Str("bob@x.io"), bills |-> Arr(<<Bill>>)]),
    Obj([to |-> Str("bob@x.io"), bills |-> Arr(<<Bill>>), total |-> Str("5")]) }

NextEmail ==
  \/ \E h \in LocalHeaders : GetEmailConfig(h)
  \/ \E h \in LocalHeaders, b \in EmailBodies : PutEmailConfig(h, b)
  \/ \E h \in LocalHeaders, p \in EchoProviders : EchoEmailConfig(h, p)
  \/ \E h \in LocalHeaders, ok \in BOOLEAN : EmailTest(h, ok)
  \/ \E h \in LocalHeaders, b \in SendBodies, ok \in BOOLEAN : EmailSend(h, b, ok)

SpecEmail == Init /\ [][NextEmail]_vars

---------------------------------------------------------------------------
(* Specification of the dispatcher alone: sendEmail on arbitrary arguments *)

ProviderChoices ==
  { Undefined, Str(""), Str("mailgun"), Str("sendgrid"), Str("resend"), Str("smtp"),
    Str("pigeon") }
SenderChoices == { Undefined, Str(""), Str("me@x.io") }
DispatchConfigs ==
  { Undefined, Null }
    \cup { Obj([provider |-> p, fromEmail |-> e]) : p \in ProviderChoices, e \in SenderChoices }
Recipients == { Undefined, Str(""), Str("bob@x.io") }

InitDispatch ==
  /\ user_state = NoRows
  /\ monthly_data = NoRows
  /\ email_config = NoRows
  /\ resp = NoResponse
  /\ proc = "running"
  /\ net = <<>>
  /\ sendIn \in [cfg : DispatchConfigs, to : Recipients, ok : BOOLEAN]
  /\ monthLog = NoRows
  /\ stateLog = NoRows

\* await sendEmail(sendIn.cfg, sendIn.to, ...), once
DirectSend ==
  LET r == sendEmail(sendIn.cfg, sendIn.to, sendIn.ok) IN
  /\ resp.op = "none"
  /\ net' = r.calls
  /\ resp' = [NoResponse EXCEPT !.op = "sendEmail",
                                !.body = IF r.threw THEN ErrorBody(r.msg) ELSE OkBody]
  /\ UNCHANGED <<user_state, monthly_data, email_config, proc, sendIn, monthLog, stateLog>>

NextDispatch == DirectSend

SpecDispatch == InitDispatch /\ [][NextDispatch]_vars

---------------------------------------------------------------------------
(* Specification of two tenants behind a proxy, every handler, small requests *)

IsoStateBodies == { Obj([people |-> V1]) }
IsoSettingKeys == { "people" }
IsoMonthKeys == { "2024-01" }
IsoImportBodies ==
  { Obj([state |-> Obj([people |-> Total(1)]), monthly |-> Obj([k \in IsoMonthKeys |-> V1])]) }
IsoEmailBodies ==
  { Obj([provider |-> Str("smtp"), fromEmail |-> Str("me@x.io"), smtpPass |-> Str("hunter2!")]) }
IsoSendBodies ==
  { Obj([to |-> Str("bob@x.io"), monthLabel |-> Str("March"), bills |-> Arr(<<Bill>>),
         total |-> Num(5), payMethod |-> Str("none")]) }

NextIso ==
  \/ \E h \in ProxyHeaders : GetState(h)
  \/ \E h \in ProxyHeaders, b \in IsoStateBodies, f \in FailPoints : PutState(h, b, f)
  \/ \E h \in ProxyHeaders, k \in IsoSettingKeys, b \in BodyValues : PatchState(h, k, b)
  \/ \E h \in ProxyHeaders : GetMonths(h)
  \/ \E h \in ProxyHeaders, k \in IsoMonthKeys : GetMonth(h, k)
  \/ \E h \in ProxyHeaders, k \in IsoMonthKeys : PutMonth(h, k, V1)
  \/ \E h \in ProxyHeaders, k \in IsoMonthKeys : DeleteMonth(h, k)
  \/ \E h \in ProxyHeaders : Export(h)
  \/ \E h \in ProxyHeaders, b \in IsoImportBodies, f \in FailPoints : Import(h, b, f)
  \/ \E h \in ProxyHeaders : GetEmailConfig(h)
  \/ \E h \in ProxyHeaders, b \in IsoEmailBodies : PutEmailConfig(h, b)
  \/ \E h \in ProxyHeaders : EmailTest(h, TRUE)
  \/ \E h \in ProxyHeaders, b \in IsoSendBodies : EmailSend(h, b, TRUE)

SpecIso == Init /\ [][NextIso]_vars

---------------------------------------------------------------------------
(* Specification of a process started on a database file that exists: the   *)
(* tables are created IF NOT EXISTS, so the rows of the file are kept, and a *)
(* TEXT column holds whatever was written to the file                        *)

\* a text that JSON.parse rejects: {"people"
Truncated == <<"{", Quote("people")>>
StoredTexts == { JSONstringify(V1), Truncated }
StoredConfig == Obj([provider |-> Str("smtp"), fromEmail |-> Str("me@x.io"),
                     smtpPass |-> Str("hunter2!")])
StoredConfigTexts == { JSONstringify(StoredConfig), Truncated }
StoredOwner == UserId(NoHeaders)

\* the tables of the file: rows of one user, every subset of the keys, every text
StoredRows(keys, texts) ==
  UNION { [{ <<StoredOwner, k>> : k \in K } -> texts] : K \in SUBSET keys }
StoredConfigRows == { NoRows } \cup [{StoredOwner} -> StoredConfigTexts]

InitStored ==
  /\ user_state \in StoredRows(SettingKeys, StoredTexts)
  /\ monthly_data \in StoredRows(IsoMonthKeys, StoredTexts)
  /\ email_config \in StoredConfigRows
  /\ resp = NoResponse
  /\ proc = "running"
  /\ net = <<>>
  /\ sendIn = NoSend
  /\ monthLog = NoRows
  /\ stateLog = NoRows

MergeStateBodies == { Obj([people |-> Total(1)]), Obj([settings |-> V1]) }
MergeImportBodies ==
  { Obj([state |-> Obj([people |-> Total(1)]), monthly |-> Obj([k \in IsoMonthKeys |-> Total(1)])]),
    Obj([state |-> Obj([settings |-> V1])]) }

NextStored ==
  \/ \E h \in LocalHeaders : GetState(h)
  \/ \E h \in LocalHeaders : GetMonths(h)
  \/ \E h \in LocalHeaders, k \in IsoMonthKeys : GetMonth(h, k)
  \/ \E h \in LocalHeaders : Export(h)
  \/ \E h \in LocalHeaders : GetEmailConfig(h)
  \/ \E h \in LocalHeaders, b \in MergeStateBodies, f \in FailPoints : PutState(h, b, f)
  \/ \E h \in LocalHeaders, b \in MergeImportBodies, f \in FailPoints : Import(h, b, f)

SpecStored == InitStored /\ [][NextStored]_vars

---------------------------------------------------------------------------
(* Template builder (emailTemplate.js): the payment block and the text.      *)
(* Amounts are numbers of hundredths here, so that 144.99 is Num(14499); the *)
(* style attributes of the markup are left out, the emoji too, and the dash  *)
(* of the button label is written -                                          *)

\* n.toFixed(2) for n >= 0 given in hundredths
toFixed2(c) ==
  ToString(c \div 100) \o "." \o ToString((c % 100) \div 10) \o ToString(c % 10)

\* encodeURIComponent on one character: the unreserved ones are kept
EncodeChar(c) ==
  CASE c = "{"  -> "%7B"
    [] c = "}"  -> "%7D"
    [] c = "\"" -> "%22"
    [] c = ":"  -> "%3A"
    [] c = ","  -> "%2C"
    [] c = " "  -> "%20"
    [] c = "@"  -> "%40"
    [] OTHER    -> c
RECURSIVE encodeURIComponent(_)
encodeURIComponent(str) ==
  IF str = "" THEN ""
  ELSE EncodeChar(SubSeq(str, 1, 1)) \o encodeURIComponent(SubSeq(str, 2, Len(str)))

\* s.replace(c, ''): the first c of s removed
RECURSIVE ReplaceFirst(_, _)
ReplaceFirst(str, c) ==
  IF str = "" THEN ""
  ELSE IF SubSeq(str, 1, 1) = c THEN SubSeq(str, 2, Len(str))
  ELSE SubSeq(str, 1, 1) \o ReplaceFirst(SubSeq(str, 2, Len(str)), c)

\* JSON.stringify({ name: personName, token: payId, amount: total.toFixed(2) }):
\* keys in this order, an undefined name left out
ZelleData(personName, payId, total) ==
  "{" \o (IF IsStr(personName) THEN Quote("name") \o ":" \o Quote(personName.str) \o "," ELSE "")
      \o Quote("token") \o ":" \o Quote(payId.str) \o ","
      \o Quote("amount") \o ":" \o Quote(toFixed2(total.num)) \o "}"

\* fault: an empty identifier counts as one (payId !== undefined instead of payId)
PayBranch_AnyId(opts) ==
  IF Prop(opts, "payMethod") = Str("zelle") /\ IsStr(Prop(opts, "payId")) THEN "zelle"
  ELSE IF Prop(opts, "payMethod") = Str("venmo") /\ IsStr(Prop(opts, "payId")) THEN "venmo"
  ELSE "total"

\* which branch of the payment block is taken
PayBranch(opts) ==
  IF Prop(opts, "payMethod") = Str("zelle") /\ Truthy(Prop(opts, "payId")) THEN "zelle"
  ELSE IF Prop(opts, "payMethod") = Str("venmo") /\ Truthy(Prop(opts, "payId")) THEN "venmo"
  ELSE "total"

payButtonHtml(opts) ==
  LET payId == Prop(opts, "payId")
      fixed == toFixed2(Prop(opts, "total").num)
  IN CASE PayBranch(opts) = "zelle" ->
            "<a href=\"https://enroll.zellepay.com/qr-codes?data="
              \o encodeURIComponent(ZelleData(Prop(opts, "personName"), payId, Prop(opts, "total")))
              \o "\">Pay via Zelle - $" \o fixed \o "</a><span>Zelle to " \o payId.str \o "</span>"
       [] PayBranch(opts) = "venmo" ->
            "<a href=\"https://venmo.com/" \o ReplaceFirst(payId.str, "@")
              \o "?txn=charge&amount=" \o fixed
              \o "&note=" \o encodeURIComponent("Bills " \o Prop(opts, "monthLabel").str)
              \o "\">Pay via Venmo - $" \o fixed \o "</a><span>Venmo @"
              \o ReplaceFirst(payId.str, "@") \o "</span>"
       [] OTHER ->
            "<div>Total Due: $" \o fixed \o "</div>"

\* the last lines of the text: the total and the payment sentence
payText(opts) ==
  LET payId == Prop(opts, "payId") IN
  "  Total you owe:         $" \o toFixed2(Prop(opts, "total").num) \o "\n\n"
    \o (IF Prop(opts, "payMethod") = Str("zelle") /\ Truthy(payId)
        THEN "Please pay via Zelle to " \o payId.str \o "."
        ELSE IF Prop(opts, "payMethod") = Str("venmo") /\ Truthy(payId)
        THEN "Please pay via Venmo @" \o ReplaceFirst(payId.str, "@") \o "."
        ELSE "Please send your share when you get a chance.")

\* buildEmailHtml(opts): { html, text }, or the TypeError it raises
buildEmailHtml(opts) ==
  IF BuildThrows(opts) THEN ErrorBody("TypeError")
  ELSE Obj([html |-> Str(payButtonHtml(opts)), text |-> Str(payText(opts))])

---------------------------------------------------------------------------
(* Specification of the template builder alone: buildEmailHtml on arbitrary options *)

PayMethods == { Undefined, Str("none"), Str("zelle"), Str("venmo"), Str("cash") }
PayIds == { Undefined, Str(""), Str("555-1234"), Str("@bob") }
Totals == { Undefined, Num(14499), Num(500), Num(5) }
PersonNames == { Undefined, Str("Bob") }
TemplateOpts ==
  { Obj([personName |-> n, monthLabel |-> Str("March"), bills |-> Arr(<<Bill>>),
         total |-> t, payMethod |-> m, payId |-> i]) :
      n \in PersonNames, t \in Totals, m \in PayMethods, i \in PayIds }

InitTemplate ==
  /\ user_state = NoRows
  /\ monthly_data = NoRows
  /\ email_config = NoRows
  /\ resp \in { [NoResponse EXCEPT !.req = o] : o \in TemplateOpts }
  /\ proc = "running"
  /\ net = <<>>
  /\ sendIn = NoSend
  /\ monthLog = NoRows
  /\ stateLog = NoRows

\* buildEmailHtml(resp.req), once
Build ==
  /\ resp.op = "none"
  /\ resp' = [resp EXCEPT !.op = "buildEmailHtml", !.body = buildEmailHtml(resp.req)]
  /\ UNCHANGED <<user_state, monthly_data, email_config, proc, net, sendIn, monthLog, stateLog>>

NextTemplate == Build

SpecTemplate == InitTemplate /\ [][NextTemplate]_vars

---------------------------------------------------------------------------
(* Specification of backups: two tenants behind a proxy, one of them with the *)
(* rows of an existing file, who export and import what was exported          *)

\* POST /api/import of the document GET /api/export answered last, by any tenant
ImportExported(h, failAt) ==
  /\ resp.op = "Export"
  /\ Import(h, resp.body, failAt)

NextBackup ==
  \/ \E h \in ProxyHeaders : Export(h)
  \/ \E h \in ProxyHeaders, f \in FailPoints : ImportExported(h, f)

SpecBackup == InitStored /\ [][NextBackup]_vars

---------------------------------------------------------------------------
(* Claims about the store, checked under Spec *)

\* four digits, a hyphen, two digits
Digits == {"0", "1", "2", "3", "4", "5", "6", "7", "8", "9"}
IsYearMonth(k) ==
  /\ Len(k) = 7
  /\ SubSeq(k, 5, 5) = "-"
  /\ \A i \in {1, 2, 3, 4, 6, 7} : SubSeq(k, i, i) \in Digits

\* C1: every row of monthly_data has a month key of the form YYYY-MM, whatever
\* requests were served.
C1_MonthKeysMatch == \A p \in DOMAIN monthly_data : IsYearMonth(p[2])

\* C2: a PUT /api/months/:key whose key is not of the form YYYY-MM is answered
\* 400 and no table is changed by it.
C2_BadKeyRejected ==
  [][ (resp'.op = "PutMonth" /\ ~IsYearMonth(resp'.key))
        => /\ resp'.status = 400
           /\ user_state' = user_state
           /\ monthly_data' = monthly_data
           /\ email_config' = email_config ]_vars

\* a malformed PUT was answered while rows were stored
C2_Witness ==
  /\ resp.op = "PutMonth" /\ ~IsYearMonth(resp.key) /\ resp.status = 400
  /\ DOMAIN monthly_data # {}

\* C3: GET /api/months/k for a key k of the form YYYY-MM answers the body of the
\* last successful write to (user, k) if no delete followed it, and {} otherwise.
C3_MonthRoundTrip ==
  (resp.op = "GetMonth" /\ IsYearMonth(resp.key))
    => resp.body = IF <<resp.user, resp.key>> \in DOMAIN monthLog
                   THEN monthLog[<<resp.user, resp.key>>]
                   ELSE Obj(NoProps)

\* a month was written and read back
C3_Witness ==
  /\ resp.op = "GetMonth" /\ IsYearMonth(resp.key)
  /\ resp.body = Total(1)

\* every key of the batch of the request handled last is stored with the text of its value
BatchApplied ==
  LET u == resp.user
      s == IF resp.op = "Import" THEN Prop(resp.req, "state") ELSE resp.req
      m == IF resp.op = "Import" THEN Prop(resp.req, "monthly") ELSE Undefined
  IN /\ IsObj(s) => \A k \in DOMAIN s.obj :
                       /\ <<u, k>> \in DOMAIN user_state
                       /\ JSONparse(user_state[<<u, k>>]) = [ok |-> TRUE, val |-> s.obj[k]]
     /\ IsObj(m) => \A k \in DOMAIN m.obj :
                       /\ <<u, k>> \in DOMAIN monthly_data
                       /\ JSONparse(monthly_data[<<u, k>>]) = [ok |-> TRUE, val |-> m.obj[k]]

\* C4: a batch write (POST /api/import, PUT /api/state) in which a statement fails
\* leaves user_state and monthly_data as they were; one that is answered 200 has
\* written every key of its body. No state in between is ever visible.
C4_BatchAllOrNothing ==
  [][ (resp'.op \in {"Import", "PutState"})
        => \/ /\ resp'.status = 200
              /\ BatchApplied'
           \/ /\ resp'.status # 200
              /\ user_state' = user_state
              /\ monthly_data' = monthly_data ]_vars

\* a two-statement import failed at its second statement
C4_Witness ==
  /\ resp.op = "Import" /\ resp.status = 500
  /\ IsObj(Prop(resp.req, "state")) /\ IsObj(Prop(resp.req, "monthly"))
  /\ DOMAIN user_state # {}

---------------------------------------------------------------------------
(* Claims about the email configuration, checked under SpecEmail *)

\* what the save answered last did to the secret field f: the incoming value, the
\* value stored before and the value stored after
SecretKept(f, marker) ==
  LET in     == Prop(resp'.req, f)
      before == Prop(ExistingConfig(email_config, resp'.user), f)
      after  == Prop(ExistingConfig(email_config', resp'.user), f)
  IN IsStr(in) => IF Includes(in.str, marker) THEN after = before ELSE after = in

\* C5 as stated: on a save, a secret whose incoming value contains the redaction
\* marker (the twelve bullets of a masked value) keeps its stored value, and any
\* other incoming value is stored.
C5_AsStated ==
  [][ (resp'.op = "PutEmailConfig" /\ resp'.status = 200)
        => \A f \in SecretFields : SecretKept(f, MaskSuffix) ]_vars

\* C5, amended: on a save, a secret whose incoming value contains four
\* consecutive bullets keeps its stored value, and any other incoming string is
\* stored.
C5_ProbeDecides ==
  [][ (resp'.op = "PutEmailConfig" /\ resp'.status = 200)
        => \A f \in SecretFields : SecretKept(f, MaskProbe) ]_vars

\* a masked secret was saved back over a stored one, which was kept
C5_Witness ==
  /\ resp.op = "PutEmailConfig" /\ resp.status = 200
  /\ IsStr(Prop(resp.req, "smtpPass")) /\ Includes(Prop(resp.req, "smtpPass").str, MaskSuffix)
  /\ Prop(ExistingConfig(email_config, resp.user), "smtpPass") = Str("hunter2!")

C7_MaskedRead ==
  [][ (resp'.op = "GetEmailConfig" /\ resp'.user \in DOMAIN email_config)
        => LET cfg == ExistingConfig(email_config, resp'.user) IN
           /\ email_config' = email_config
           /\ IsObj(resp'.body)
           /\ DOMAIN resp'.body.obj = DOMAIN cfg.obj
           /\ \A k \in DOMAIN cfg.obj :
                LET v == cfg.obj[k]
                    r == resp'.body.obj[k]
                IN /\ (k \in SecretFields /\ IsStr(v) /\ Len(v.str) >= 4)
                        => (r = Str(SubSeq(v.str, 1, 4) \o MaskSuffix) /\ r # v)
                   /\ (k \notin SecretFields) => r = v ]_vars

\* a stored secret was read masked
C7_Witness ==
  /\ resp.op = "GetEmailConfig"
  /\ Prop(resp.body, "smtpPass") = Str("hunt" \o MaskSuffix)
  /\ Prop(resp.body, "fromEmail") = Str("me@x.io")

\* C10: the process survives every request.
C10_NeverCrashes == proc = "running"

---------------------------------------------------------------------------
(* Claim about the dispatcher, checked under SpecDispatch *)

KnownProviders == { Str("mailgun"), Str("sendgrid"), Str("resend"), Str("smtp") }

\* C9: sendEmail calls exactly one transport, the one config.provider names, when
\* the config names one of the four providers and a sender and the recipient is
\* not empty; otherwise it fails and calls no transport.
C9_OneTransportOrNone ==
  resp.op = "sendEmail"
    => IF /\ IsObj(sendIn.cfg)
          /\ Prop(sendIn.cfg, "provider") \in KnownProviders
          /\ IsStr(Prop(sendIn.cfg, "fromEmail")) /\ Prop(sendIn.cfg, "fromEmail").str # ""
          /\ IsStr(sendIn.to) /\ sendIn.to.str # ""
       THEN /\ Len(net) = 1
            /\ net[1].transport = Prop(sendIn.cfg, "provider").str
            /\ net[1].to = sendIn.to
            /\ (resp.body = OkBody) <=> sendIn.ok
       ELSE /\ net = <<>>
            /\ resp.body # OkBody

\* a config naming resend, with a sender and a recipient, was dispatched to resend
C9_Witness ==
  /\ resp.op = "sendEmail"
  /\ Len(net) = 1 /\ net[1].transport = "resend"
  /\ resp.body = OkBody

---------------------------------------------------------------------------
(* Claim about tenants, checked under SpecIso *)

\* the rows of table tbl under user u (tbl keyed by <<user_id, key>>)
RowsOf(tbl, u) == [p \in { q \in DOMAIN tbl : q[1] = u } |-> tbl[p]]
\* the values user u wrote last, by key
WrittenBy(log, u) == Obj([k \in { p[2] : p \in { q \in DOMAIN log : q[1] = u } } |-> log[<<u, k>>]])

\* what a read answers to user u from the data written under u alone: sl and ml
\* are the values written last, ec the email configurations
OwnAnswer(op, key, u, sl, ml, ec) ==
  CASE op = "GetState"  -> WrittenBy(sl, u)
    [] op = "GetMonths" -> WrittenBy(ml, u)
    [] op = "GetMonth"  -> IF <<u, key>> \in DOMAIN ml THEN ml[<<u, key>>] ELSE Obj(NoProps)
    [] op = "Export"    -> Obj([user |-> Str(u), exportedAt |-> Str("now"),
                                state |-> WrittenBy(sl, u),
                                monthly |-> WrittenBy(ml, u)])
    [] op = "GetEmailConfig" -> MaskedView([x \in DOMAIN ec \cap {u} |-> ec[x]], u)

Reads == {"GetState", "GetMonths", "GetMonth", "Export", "GetEmailConfig"}

\* C8: a request of tenant A changes no row of another tenant, and a read of
\* tenant A answers exactly the data written under A.
C8_TenantIsolation ==
  [][ /\ \A t \in Tenants \ {resp'.user} :
           /\ RowsOf(user_state', t) = RowsOf(user_state, t)
           /\ RowsOf(monthly_data', t) = RowsOf(monthly_data, t)
           /\ (t \in DOMAIN email_config') = (t \in DOMAIN email_config)
           /\ t \in DOMAIN email_config => email_config'[t] = email_config[t]
      /\ resp'.op \in Reads => resp'.body = OwnAnswer(resp'.op, resp'.key, resp'.user,
                                                   stateLog', monthLog', email_config') ]_vars

\* alice exports while both tenants hold rows in every table
C8_Witness ==
  /\ resp.op = "Export" /\ resp.user = "alice"
  /\ \A t \in Tenants :
       /\ RowsOf(user_state, t) # NoRows
       /\ RowsOf(monthly_data, t) # NoRows
       /\ t \in DOMAIN email_config

---------------------------------------------------------------------------
(* Claims about validation, checked under SpecEmail *)

\* the request answered last failed a validation: no provider in a config save,
\* no recipient in a send, or no sender address in the stored config of a send
\* or a test that was otherwise well formed (a response was written)
NoProviderGiven == resp.op = "PutEmailConfig" /\ ~Truthy(Prop(resp.req, "provider"))
NoRecipientGiven == resp.op = "EmailSend" /\ ~Truthy(Prop(resp.req, "to"))
NoSenderStored ==
  /\ resp.op \in {"EmailSend", "EmailTest"}
  /\ proc = "running"
  /\ resp.op = "EmailSend" => Truthy(Prop(resp.req, "to"))
  /\ resp.user \in DOMAIN email_config
  /\ ~Truthy(Prop(ExistingConfig(email_config, resp.user), "fromEmail"))

\* C11: a request that fails a validation (no provider on a config save, no
\* recipient on a send, no sender address in the stored config on a send or a
\* test) is answered 4xx and changes no table.
C11_ValidationIs4xx ==
  [][ (NoProviderGiven' \/ NoRecipientGiven' \/ NoSenderStored')
        => /\ resp'.status \in 400..499
           /\ user_state' = user_state
           /\ monthly_data' = monthly_data
           /\ email_config' = email_config ]_vars

\* C12: a config save without a provider is answered 400 and changes no stored
\* configuration; every stored configuration has a provider.
C12_ProviderRequired ==
  [][ /\ NoProviderGiven' => (resp'.status = 400 /\ email_config' = email_config)
      /\ \A u \in DOMAIN email_config' :
           Truthy(Prop(ExistingConfig(email_config', u), "provider")) ]_vars

\* a save without a provider was rejected while a configuration was stored
C12_Witness ==
  /\ NoProviderGiven /\ resp.status = 400
  /\ IsStr(Prop(resp.req, "smtpPass"))
  /\ resp.user \in DOMAIN email_config
  /\ Prop(ExistingConfig(email_config, resp.user), "smtpPass") = Str("hunter2!")

---------------------------------------------------------------------------
(* Claims about stored rows, checked under SpecStored *)

\* an empty or absent result
Empty == { Null, Obj(NoProps) }
\* the rows of user u in tbl whose text does not deserialize, by key
Unreadable(tbl, u) == { p[2] : p \in { q \in DOMAIN tbl : q[1] = u /\ ~JSONparse(tbl[q]).ok } }
\* the object o has no entry under key k, or an empty one
NoEntry(o, k) == IsObj(o) /\ (k \in DOMAIN o.obj => o.obj[k] \in Empty)

\* C13: a read is answered 200, and a stored value that does not deserialize
\* gives an empty or absent result for its entry, never its raw text.
C13_LenientRead ==
  LET u == resp.user IN
  /\ resp.op \in Reads => resp.status = 200
  /\ resp.op = "GetState" => \A k \in Unreadable(user_state, u) : NoEntry(resp.body, k)
  /\ resp.op = "GetMonths" => \A k \in Unreadable(monthly_data, u) : NoEntry(resp.body, k)
  /\ (resp.op = "GetMonth" /\ resp.key \in Unreadable(monthly_data, u)) => resp.body \in Empty
  /\ resp.op = "Export" =>
       /\ \A k \in Unreadable(user_state, u) : NoEntry(Prop(resp.body, "state"), k)
       /\ \A k \in Unreadable(monthly_data, u) : NoEntry(Prop(resp.body, "monthly"), k)
  /\ (resp.op = "GetEmailConfig" /\ u \in DOMAIN email_config
         /\ ~JSONparse(email_config[u]).ok) => resp.body \in Empty

\* the keys a batch names: those of the body of PUT /api/state, those of state
\* and of monthly in the body of POST /api/import
NamedKeys(op, req, part) ==
  LET o == IF op = "PutState" THEN (IF part = "state" THEN req ELSE Undefined)
           ELSE Prop(req, part)
  IN IF IsObj(o) THEN DOMAIN o.obj ELSE {}
\* every row of tbl that is not a row of user u under a key of keys is in tbl2 as it was
RowsKept(tbl, tbl2, u, keys) ==
  \A p \in DOMAIN tbl : (p[1] # u \/ p[2] \notin keys) => (p \in DOMAIN tbl2 /\ tbl2[p] = tbl[p])

\* C16: PUT /api/state and POST /api/import keep every settings row and every
\* month row that the body does not name, and never change an email configuration.
C16_BatchMerges ==
  [][ resp'.op \in {"PutState", "Import"}
        => /\ RowsKept(user_state, user_state', resp'.user,
                       NamedKeys(resp'.op, resp'.req, "state"))
           /\ RowsKept(monthly_data, monthly_data', resp'.user,
                       NamedKeys(resp'.op, resp'.req, "monthly"))
           /\ email_config' = email_config ]_vars

\* a batch naming people was stored beside a settings row, a month row and an
\* email configuration that it does not name
C16_Witness ==
  /\ resp.op = "PutState" /\ resp.status = 200
  /\ DOMAIN resp.req.obj = {"people"}
  /\ <<resp.user, "settings">> \in DOMAIN user_state
  /\ <<resp.user, "people">> \in DOMAIN user_state
  /\ RowsOf(monthly_data, resp.user) # NoRows
  /\ resp.user \in DOMAIN email_config

---------------------------------------------------------------------------
(* Claim about the template builder, checked under SpecTemplate *)

\* the amounts of the options with two decimals
TwoDecimals(t) ==
  CASE t = Num(14499) -> "144.99"
    [] t = Num(500)   -> "5.00"
    [] t = Num(5)     -> "0.05"
\* the handles of the identifiers
Handle(i) == IF i = Str("@bob") THEN "bob" ELSE i.str
\* the identifiers as a URL component carries them
InUrl(i) == IF i = Str("@bob") THEN "%40bob" ELSE i.str

Built == resp.op = "buildEmailHtml" /\ IsStr(Prop(resp.body, "html"))
Html == Prop(resp.body, "html").str
Text == Prop(resp.body, "text").str

ShowsZelle(o) ==
  LET id == Prop(o, "payId") IN
  /\ Includes(Html, "href=\"https://enroll.zellepay.com/qr-codes?data=")
  /\ IsStr(id)
  /\ Includes(Html, "%22token%22%3A%22" \o InUrl(id) \o "%22")
  /\ Includes(Html, "%22amount%22%3A%22" \o TwoDecimals(Prop(o, "total")) \o "%22")
  /\ IsStr(Prop(o, "personName"))
       => Includes(Html, "%22name%22%3A%22" \o Prop(o, "personName").str \o "%22")
  /\ Includes(Text, "Please pay via Zelle to " \o id.str \o ".")
ShowsVenmo(o) ==
  LET id == Prop(o, "payId") IN
  /\ IsStr(id)
  /\ Includes(Html, "href=\"https://venmo.com/" \o Handle(id) \o "?txn=charge&amount="
                      \o TwoDecimals(Prop(o, "total")))
  /\ Includes(Text, "Please pay via Venmo @" \o Handle(id) \o ".")
ShowsTotal(o) ==
  /\ Includes(Html, "Total Due: $" \o TwoDecimals(Prop(o, "total")))
  /\ ~Includes(Html, "href")
  /\ Includes(Text, "Please send your share when you get a chance.")

\* C14 as stated: the payment method alone selects the rendering, zelle the
\* Zelle link and sentence, venmo the Venmo link and sentence, any other the
\* static total and the send-your-share sentence.
C14_AsStated ==
  Built => LET m == Prop(resp.req, "payMethod") IN
           CASE m = Str("zelle") -> ShowsZelle(resp.req)
             [] m = Str("venmo") -> ShowsVenmo(resp.req)
             [] OTHER            -> ShowsTotal(resp.req)

\* C14, amended: method zelle with a non-empty identifier gives the Zelle link
\* and sentence, method venmo with a non-empty identifier the Venmo link and
\* sentence, and every other case, zelle and venmo without an identifier
\* included, the static total and the send-your-share sentence; html and text
\* always agree.
C14_MethodAndId ==
  Built => LET m  == Prop(resp.req, "payMethod")
               id == Prop(resp.req, "payId")
           IN CASE m = Str("zelle") /\ IsStr(id) /\ id.str # "" -> ShowsZelle(resp.req)
                [] m = Str("venmo") /\ IsStr(id) /\ id.str # "" -> ShowsVenmo(resp.req)
                [] OTHER -> ShowsTotal(resp.req)

\* zelle, identifier 555-1234 and total 144.99 were rendered
C14_Witness ==
  /\ Built
  /\ Prop(resp.req, "payMethod") = Str("zelle")
  /\ Prop(resp.req, "payId") = Str("555-1234")
  /\ Prop(resp.req, "total") = Num(14499)
  /\ Includes(Html, "144.99")
  /\ Includes(Text, "Please pay via Zelle to 555-1234.")

---------------------------------------------------------------------------
(* Claim about settings, checked under Spec *)

\* C15: GET /api/state answers, for each key the tenant wrote through PUT
\* /api/state, PATCH /api/state/:key or POST /api/import, the value of the last
\* write of that key, and no other key.
C15_LastWriteWins ==
  resp.op = "GetState" => resp.body = WrittenBy(stateLog, resp.user)

\* people was written as [{"name":"Alice"}] and read back beside another key
C15_Witness ==
  /\ resp.op = "GetState" /\ resp.user = "local"
  /\ resp.body = Obj([people |-> V1, settings |-> Total(1)])

---------------------------------------------------------------------------
(* Claim about backups, checked under SpecBackup *)

\* the rows of user u in tbl as the values they deserialize to, by key
ValuesOf(tbl, u) ==
  [k \in { p[2] : p \in { q \in DOMAIN tbl : q[1] = u } } |->
     LET p == JSONparse(tbl[<<u, k>>]) IN IF p.ok THEN p.val ELSE Undefined]
AllReadable(u) == Unreadable(user_state, u) = {} /\ Unreadable(monthly_data, u) = {}
NoData(u) == RowsOf(user_state, u) = NoRows /\ RowsOf(monthly_data, u) = NoRows

\* C17: the document exported by a tenant whose rows all deserialize, imported
\* by a tenant with no data, gives that tenant the settings and months of the
\* exporter; imported by the exporter, it changes neither store; and an
\* exported document has the keys user, exportedAt, state and monthly only,
\* with no secret of the email configuration in it.
C17_ExportImport ==
  [][ /\ (resp.op = "Export" /\ AllReadable(resp.user)
             /\ resp'.op = "Import" /\ resp'.req = resp.body /\ resp'.status = 200)
          => /\ NoData(resp'.user)
                  => /\ ValuesOf(user_state', resp'.user) = ValuesOf(user_state, resp.user)
                     /\ ValuesOf(monthly_data', resp'.user) = ValuesOf(monthly_data, resp.user)
             /\ resp'.user = resp.user
                  => /\ user_state' = user_state
                     /\ monthly_data' = monthly_data
      /\ resp'.op = "Export"
          => /\ DOMAIN resp'.body.obj = {"user", "exportedAt", "state", "monthly"}
             /\ ~Includes(RawText(JSONstringify(resp'.body)), StoredConfig.obj.smtpPass.str) ]_vars

\* alice, who had no data, imported the export of local, who has settings, a
\* month and an email configuration
C17_Witness ==
  /\ resp.op = "Import" /\ resp.status = 200 /\ resp.user = "alice"
  /\ Prop(resp.req, "user") = Str("local")
  /\ ValuesOf(user_state, "alice") = ValuesOf(user_state, "local")
  /\ ValuesOf(monthly_data, "alice") = ValuesOf(monthly_data, "local")
  /\ DOMAIN ValuesOf(user_state, "alice") = SettingKeys
  /\ DOMAIN ValuesOf(monthly_data, "alice") = IsoMonthKeys
  /\ "local" \in DOMAIN email_config

===========================================================================
